---- MODULE Spec2Model ----
(***************************************************************************)
(* Lifecycle of the gcore_lbmember resource                                *)
(* (gcore/resource_gcore_lbmember.go): Create / Read / Update / Delete /   *)
(* Import of one load-balancer pool member against a remote pool whose     *)
(* mutations are asynchronous tasks.                                       *)
(***************************************************************************)
EXTENDS Integers, Sequences, FiniteSets, TLC

VARIABLES
    d,          \* *schema.ResourceData of the resource (id and fields)
    config,     \* desired configuration handed in by the host framework
    timeout,    \* d.Timeout(...) of the running operation, in poll ticks
    pool,       \* the remote pool: id, name, ordered member collection
    op,         \* lifecycle operation running or last returned
    pc,         \* position inside the operation
    result,     \* diagnostics returned by the last operation
    req,        \* the mutating request built by the running operation
    task,       \* the remote task answering the mutating request
    attempt,    \* conflict answers received so far for the request
    polls,      \* task-status polls that found the task still running
    called,     \* kinds of remote calls issued by this invocation
    failed,     \* remote-call failures seen by this invocation
    ext,        \* number of out-of-band mutations of the pool so far
    fetched,    \* the pool as fetched by the running Update (its local `pool`)
    clock,      \* time.Now(), advanced at every stamp
    ops,        \* mutating lifecycle operations invoked so far
    quiet,      \* no out-of-band mutation and no other mutating operation since Create began
    readMatched \* a Read since the last mutating operation found the member

vars == <<d, config, timeout, pool, op, pc, result, req, task, attempt,
          polls, called, failed, ext, fetched, clock, ops, quiet, readMatched>>

----------------------------------------------------------------------------
(* Bounds *)

MaxTimeout == 2
MaxExternal == 1
MaxOps == 1

----------------------------------------------------------------------------
(* Value domains *)

PoolID == "p-7"
PoolName == "pool"
MemberIds == {"m-100", "m-2", "m-3"}
Timeouts == 1..MaxTimeout

\* net.IP values, as the 4 bytes of an IPv4 (also the IPv4-mapped IPv6 form)
\* or the 8 groups of an IPv6 address
IP4 == [v4 |-> TRUE, b |-> <<10, 0, 0, 1>>]
IP4b == [v4 |-> TRUE, b |-> <<10, 0, 0, 2>>]
IP6 == [v4 |-> FALSE, b |-> <<8193, 3512, 0, 0, 0, 0, 0, 1>>]

NilIP == [v4 |-> FALSE, b |-> <<>>]

\* net.ParseIP on the address literals used here: dotted IPv4, an
\* IPv4-mapped IPv6 literal and an upper-case IPv6 literal
ParseIP(s) ==
    CASE s = "10.0.0.1" -> IP4
      [] s = "::ffff:10.0.0.1" -> IP4
      [] s = "10.0.0.2" -> IP4b
      [] s = "2001:DB8::1" -> IP6
      [] s = "2001:db8::1" -> IP6
      [] OTHER -> NilIP

\* net.IP.String(): dotted form for 4-in-6 addresses, lower-case
\* compressed form for IPv6
IPString(ip) ==
    CASE ip = IP4 -> "10.0.0.1"
      [] ip = IP4b -> "10.0.0.2"
      [] ip = IP6 -> "2001:db8::1"
      [] OTHER -> "<nil>"

Member(id, ip, port, w, subnet, inst, st) ==
    [id |-> id, address |-> ip, protocol_port |-> port, weight |-> w,
     subnet_id |-> subnet, instance_id |-> inst, operating_status |-> st]

MemberA == Member("m-100", IP4b, 80, 5, "s-1", "i-1", "ONLINE")
MemberB == Member("m-2", IP6, 8080, 9, "s-2", "", "OFFLINE")

InitialPools == {<<>>, <<MemberA, MemberB>>, <<MemberB, MemberA>>}
\* the name the remote holds for the pool with the given initial members
InitialName(ms) == IF ms = <<MemberB, MemberA>> THEN "pool-b" ELSE PoolName

DesiredConfigs ==
    { [address |-> "10.0.0.1", protocol_port |-> 80, weight |-> 1,
       subnet_id |-> "s-1", instance_id |-> "i-9"],
      [address |-> "2001:DB8::1", protocol_port |-> 8080, weight |-> 42,
       subnet_id |-> "", instance_id |-> ""] }

NoReq == [kind |-> "none"]
NoTask == [state |-> "none", kind |-> "none", member |-> "", applied |-> TRUE]
NoPool == [id |-> "", name |-> "", members |-> <<>>]

EmptyData ==
    [id |-> "", pool_id |-> PoolID, project_id |-> 0, region_id |-> 0,
     address |-> "", protocol_port |-> 0, weight |-> 1, subnet_id |-> "",
     instance_id |-> "", operating_status |-> "", last_updated |-> 0]

\* the configuration and the resource data of a member created and read earlier
ConfigA ==
    [address |-> "10.0.0.2", protocol_port |-> 80, weight |-> 5,
     subnet_id |-> "s-1", instance_id |-> "i-1"]
NoConfig ==
    [address |-> "", protocol_port |-> 0, weight |-> 1, subnet_id |-> "",
     instance_id |-> ""]
TrackedA ==
    [EmptyData EXCEPT !.id = "m-100", !.address = "10.0.0.2",
                      !.protocol_port = 80, !.weight = 5, !.subnet_id = "s-1",
                      !.instance_id = "i-1", !.operating_status = "ONLINE"]

Ids(members) == {members[i].id : i \in 1..Len(members)}

----------------------------------------------------------------------------
(* Read *)

\* the member loop of resourceLBMemberRead
RECURSIVE ReadLoop(_, _, _)
ReadLoop(dd, members, i) ==
    IF i > Len(members) THEN dd
    ELSE LET pm == members[i] IN
         IF dd.id = pm.id
         THEN ReadLoop([dd EXCEPT !.address = IPString(pm.address),
                                  !.protocol_port = pm.protocol_port,
                                  !.weight = pm.weight,
                                  !.subnet_id = pm.subnet_id,
                                  !.instance_id = pm.instance_id,
                                  !.operating_status = pm.operating_status],
                       members, i + 1)
         ELSE ReadLoop(dd, members, i + 1)

\* lbpools.Get(client, id).Extract(): the pool, or an error when the
\* transport fails or the remote has no pool of that id
GetFails(pid, net) == net = "error" \/ pid # pool.id

resourceLBMemberReadClearsId(dd, net) ==
    IF net = "client" THEN [d |-> dd, err |-> "err_client", matched |-> FALSE]
    ELSE IF GetFails(dd.pool_id, net)
    THEN [d |-> dd, err |-> "err_get", matched |-> FALSE]
    ELSE IF dd.id \in Ids(pool.members)
    THEN [d |-> ReadLoop(dd, pool.members, 1), err |-> "ok", matched |-> TRUE]
    ELSE [d |-> [dd EXCEPT !.id = ""], err |-> "ok", matched |-> FALSE]

resourceLBMemberReadStamps(dd, net) ==
    IF net = "client" THEN [d |-> dd, err |-> "err_client", matched |-> FALSE]
    ELSE IF GetFails(dd.pool_id, net)
    THEN [d |-> dd, err |-> "err_get", matched |-> FALSE]
    ELSE [d |-> [ReadLoop(dd, pool.members, 1) EXCEPT !.last_updated = clock + 1],
          err |-> "ok", matched |-> dd.id \in Ids(pool.members)]

\* resourceLBMemberRead: net is the outcome of the client construction and
\* of the pool fetch; returns the new resource data and the diagnostics
resourceLBMemberRead(dd, net) ==
    IF net = "client" THEN [d |-> dd, err |-> "err_client", matched |-> FALSE]
    ELSE IF GetFails(dd.pool_id, net)
    THEN [d |-> dd, err |-> "err_get", matched |-> FALSE]
    ELSE [d |-> ReadLoop(dd, pool.members, 1), err |-> "ok",
          matched |-> dd.id \in Ids(pool.members)]

ReadOutcomes == {"ok", "client", "error"}

Idle == pc \in {"idle", "done"}

ReadCallsCompensating(net) ==
    IF net = "client" THEN {}
    ELSE IF net = "error" THEN {"get_pool", "delete_member"}
    ELSE {"get_pool"}

\* the set of remote calls a Read with outcome net issues
ReadCalls(net) == IF net = "client" THEN {} ELSE {"get_pool"}
\* the failure a Read with result r adds to the invocation's failures
ReadFailures(r) ==
    CASE r.err = "ok" -> {}
      [] r.err = "err_client" -> {"read_err_client"}
      [] OTHER -> {"read_err_get"}

Read ==
    /\ Idle
    /\ \E net \in ReadOutcomes :
         LET r == resourceLBMemberRead(d, net) IN
         /\ d' = r.d
         /\ result' = r.err
         /\ called' = ReadCalls(net)
         /\ failed' = ReadFailures(r)
         /\ readMatched' = (readMatched \/ r.matched)
    /\ op' = "read"
    /\ pc' = "done"
    /\ attempt' = 0
    /\ polls' = 0
    /\ fetched' = NoPool
    /\ UNCHANGED <<config, timeout, pool, req, task, ext, clock, ops, quiet>>


----------------------------------------------------------------------------
(* Primitives the lifecycle operations call into *)

RetryInterval == 1

Max(a, b) == IF a >= b THEN a ELSE b

\* GetConflictRetryConfig(timeout): attempt count and interval derived from
\* the timeout budget, never fewer than one attempt
GetConflictRetryConfig(t) ==
    [Amount |-> Max(1, t \div RetryInterval), Interval |-> RetryInterval]

RequestOptsNoRetry(t) ==
    [ConflictRetryAmount |-> 1,
     ConflictRetryInterval |-> GetConflictRetryConfig(t).Interval]

\* rc := GetConflictRetryConfig(timeout);
\* &gcorecloud.RequestOpts{ConflictRetryAmount: rc.Amount, ConflictRetryInterval: rc.Interval}
RequestOpts(t) ==
    [ConflictRetryAmount |-> GetConflictRetryConfig(t).Amount,
     ConflictRetryInterval |-> GetConflictRetryConfig(t).Interval]

\* the remote-call primitive under request-level conflict retry: what one
\* answer of the remote makes of the call, given the conflicts answered so far
SendRequest(opts, resp, conflicts) ==
    CASE resp = "accepted" -> "accepted"
      [] resp = "notfound" -> "notfound"
      [] resp = "error" -> "err_request"
      [] resp = "conflict" ->
            IF conflicts + 1 < opts.ConflictRetryAmount THEN "retry"
            ELSE "err_conflict"

\* tasks.WaitTaskAndReturnResult on terminal success: the extraction
\* function is invoked and its result or error is what the wait returns
WaitTaskResult(extractErr) == extractErr

AcceptedNextExtract == "extract"

\* taskID := results.Tasks[0]; tasks.WaitTaskAndReturnResult(client, taskID, ...):
\* the task of an accepted request is handed to the poller
AcceptedNext == "wait"

\* an operation returns diagnostics err to its caller
Return(err) ==
    /\ pc' = "done"
    /\ result' = err

\* what every lifecycle operation starts from
BeginWith(name, input) ==
    /\ Idle
    /\ op' = name
    /\ req' = input
    /\ task' = NoTask
    /\ attempt' = 0
    /\ polls' = 0
    /\ fetched' = NoPool
    /\ readMatched' = FALSE
    /\ ops < MaxOps
    /\ ops' = ops + 1

Begin(name) == BeginWith(name, NoReq)

\* d.Get(...) of the five configurable fields returns the desired configuration
WithConfig(dd, cfg) ==
    [dd EXCEPT !.address = cfg.address,
               !.protocol_port = cfg.protocol_port,
               !.weight = cfg.weight,
               !.subnet_id = cfg.subnet_id,
               !.instance_id = cfg.instance_id]

\* the task poller: one fetch of the task status
WaitPoll ==
    /\ pc = "wait"
    /\ called' = called \cup {"get_task"}
    /\ \E net \in {"ok", "error"} :
         LET out == IF net = "error" THEN "err_taskget"
                    ELSE IF task.state = "finished" THEN "extract"
                    ELSE IF task.state = "error" THEN "err_task"
                    ELSE IF polls + 1 >= timeout THEN "err_timeout"
                    ELSE "again" IN
         CASE out = "extract" ->
                /\ pc' = "extract"
                /\ UNCHANGED <<result, polls, failed>>
           [] out = "again" ->
                /\ polls' = polls + 1
                /\ UNCHANGED <<pc, result, failed>>
           [] OTHER ->
                /\ Return(out)
                /\ failed' = failed \cup {out}
                /\ UNCHANGED polls
    /\ UNCHANGED <<d, config, timeout, pool, op, req, task, attempt, ext,
                   fetched, clock, ops, quiet, readMatched>>

----------------------------------------------------------------------------
(* The remote: asynchronous tasks and other actors *)

Remove(members, id) == SelectSeq(members, LAMBDA m : m.id # id)

StatusOf(members, id) ==
    IF id \in Ids(members)
    THEN (CHOOSE m \in {members[i] : i \in 1..Len(members)} : m.id = id).operating_status
    ELSE "NO_MONITOR"

FromOpts(o, id, st) ==
    Member(id, o.Address, o.ProtocolPort, o.Weight, o.SubnetID, o.InstanceID, st)

\* the identity the remote assigns to a new member
NewId(members) == CHOOSE id \in MemberIds \ Ids(members) : TRUE

\* the remote completes the running task and applies its mutation
TaskFinish ==
    /\ task.state = "running"
    /\ CASE task.kind = "create" ->
              /\ MemberIds \ Ids(pool.members) # {}
              /\ LET id == NewId(pool.members) IN
                 /\ pool' = [pool EXCEPT !.members =
                               Append(@, FromOpts(req.opts, id, "NO_MONITOR"))]
                 /\ task' = [task EXCEPT !.state = "finished", !.member = id]
         [] task.kind = "update" ->
              /\ pool' = [pool EXCEPT !.name = req.name, !.members =
                            [i \in 1..Len(req.members) |->
                               FromOpts(req.members[i], req.members[i].ID,
                                        StatusOf(pool.members, req.members[i].ID))]]
              /\ task' = [task EXCEPT !.state = "finished"]
         [] task.kind = "delete" ->
              \E now \in BOOLEAN :
                 /\ pool' = IF now THEN [pool EXCEPT !.members = Remove(@, req.member)]
                            ELSE pool
                 /\ task' = [task EXCEPT !.state = "finished", !.applied = now]
    /\ UNCHANGED <<d, config, timeout, op, pc, result, req, attempt, polls,
                   called, failed, ext, fetched, clock, ops, quiet, readMatched>>

\* the remote fails the running task
TaskFail ==
    /\ task.state = "running"
    /\ task' = [task EXCEPT !.state = "error"]
    /\ UNCHANGED <<d, config, timeout, pool, op, pc, result, req, attempt, polls,
                   called, failed, ext, fetched, clock, ops, quiet, readMatched>>

\* the member of a finished delete task leaves the pool's listing late
RemoteSettle ==
    /\ task.state = "finished"
    /\ ~task.applied
    /\ pool' = [pool EXCEPT !.members = Remove(@, req.member)]
    /\ task' = [task EXCEPT !.applied = TRUE]
    /\ UNCHANGED <<d, config, timeout, op, pc, result, req, attempt, polls,
                   called, failed, ext, fetched, clock, ops, quiet, readMatched>>

MemberC(id) == Member(id, IP4, 9000, 7, "s-9", "i-7", "ONLINE")

\* another actor adds a member to the pool
ExternalAdd ==
    /\ ext < MaxExternal
    /\ MemberIds \ Ids(pool.members) # {}
    /\ pool' = [pool EXCEPT !.members = Append(@, MemberC(NewId(pool.members)))]
    /\ ext' = ext + 1
    /\ quiet' = FALSE
    /\ UNCHANGED <<d, config, timeout, op, pc, result, req, task, attempt, polls,
                   called, failed, fetched, clock, ops, readMatched>>

\* another actor removes a member from the pool
ExternalRemove ==
    /\ ext < MaxExternal
    /\ \E i \in 1..Len(pool.members) :
         pool' = [pool EXCEPT !.members = Remove(@, pool.members[i].id)]
    /\ ext' = ext + 1
    /\ quiet' = FALSE
    /\ UNCHANGED <<d, config, timeout, op, pc, result, req, task, attempt, polls,
                   called, failed, fetched, clock, ops, readMatched>>

----------------------------------------------------------------------------
(* Create *)

\* lbpools.CreatePoolMemberOpts built from the resource data
CreateOpts(dd) ==
    [Address |-> ParseIP(dd.address), ProtocolPort |-> dd.protocol_port,
     Weight |-> dd.weight, SubnetID |-> dd.subnet_id,
     InstanceID |-> dd.instance_id]

\* resourceLBMemberCreate up to the CreateMember call: client construction
\* and the request options
CreateBeginWith(cfgs) ==
    /\ Begin("create")
    /\ d.id = ""
    /\ \E cfg \in cfgs, t \in Timeouts, client \in {"ok", "client"} :
         /\ config' = cfg
         /\ timeout' = t
         /\ d' = WithConfig(d, cfg)
         /\ IF client = "client"
            THEN Return("err_client") /\ failed' = {"err_client"}
            ELSE pc' = "request" /\ result' = "none" /\ failed' = {}
    /\ called' = {}
    /\ quiet' = TRUE
    /\ UNCHANGED <<pool, ext, clock>>

CreateBegin == CreateBeginWith(DesiredConfigs)

\* lbpools.CreateMember(...).Extract() under the conflict-retry options
CreateRequest ==
    /\ op = "create" /\ pc = "request"
    /\ called' = called \cup {"create_member"}
    /\ \E resp \in {"accepted", "conflict", "error"} :
         LET out == SendRequest(RequestOpts(timeout), resp, attempt) IN
         CASE out = "accepted" ->
                /\ req' = [kind |-> "create_member", pool |-> d.pool_id,
                           opts |-> CreateOpts(d)]
                /\ task' = [NoTask EXCEPT !.state = "running", !.kind = "create"]
                /\ pc' = AcceptedNext
                /\ UNCHANGED <<result, attempt, failed>>
           [] out = "retry" ->
                /\ attempt' = attempt + 1
                /\ UNCHANGED <<req, task, pc, result, failed>>
           [] OTHER ->
                /\ Return(out)
                /\ failed' = failed \cup {out}
                /\ UNCHANGED <<req, task, attempt>>
    /\ UNCHANGED <<d, config, timeout, pool, op, polls, ext, fetched, clock, ops,
                   quiet, readMatched>>

CreateAfterWaitAlways(dd, err, pmID) == [dd EXCEPT !.id = pmID]

\* if err != nil { return diag.FromErr(err) }; d.SetId(pmID.(string))
CreateAfterWait(dd, err, pmID) ==
    IF err # "ok" THEN dd ELSE [dd EXCEPT !.id = pmID]

\* the extraction function of Create, invoked by the poller, and the
\* handling of what the wait returns
CreateExtract ==
    /\ op = "create" /\ pc = "extract"
    /\ called' = called \cup {"get_task"}
    /\ \E out \in {"ok", "err_taskget", "err_extract"} :
         LET err == WaitTaskResult(out) IN
         /\ d' = CreateAfterWait(d, err, task.member)
         /\ IF err # "ok"
            THEN Return(err) /\ failed' = failed \cup {err}
            ELSE pc' = "read" /\ UNCHANGED <<result, failed>>
    /\ UNCHANGED <<config, timeout, pool, op, req, task, attempt, polls, ext,
                   fetched, clock, ops, quiet, readMatched>>

\* resourceLBMemberRead(ctx, d, m); return diags
CreateRead ==
    /\ op = "create" /\ pc = "read"
    /\ \E net \in ReadOutcomes :
         LET r == resourceLBMemberRead(d, net) IN
         /\ d' = r.d
         /\ called' = called \cup ReadCalls(net)
         /\ failed' = failed \cup ReadFailures(r)
         /\ readMatched' = r.matched
    /\ Return("ok")
    /\ UNCHANGED <<config, timeout, pool, op, req, task, attempt, polls, ext,
                   fetched, clock, ops, quiet>>

----------------------------------------------------------------------------
(* Update *)

BuildMembersDesiredWeight(members, dd) ==
    [i \in 1..Len(members) |->
        [Address |-> IF members[i].id # dd.id THEN members[i].address
                     ELSE ParseIP(dd.address),
         ProtocolPort |-> IF members[i].id # dd.id THEN members[i].protocol_port
                          ELSE dd.protocol_port,
         Weight |-> dd.weight,
         SubnetID |-> IF members[i].id # dd.id THEN members[i].subnet_id
                      ELSE dd.subnet_id,
         InstanceID |-> IF members[i].id # dd.id THEN members[i].instance_id
                        ELSE dd.instance_id,
         ID |-> members[i].id]]

\* the replacement collection of resourceLBMemberUpdate: one
\* CreatePoolMemberOpts per fetched member, in the fetched order
BuildMembers(members, dd) ==
    [i \in 1..Len(members) |->
        IF members[i].id # dd.id
        THEN [Address |-> members[i].address,
              ProtocolPort |-> members[i].protocol_port,
              Weight |-> members[i].weight,
              SubnetID |-> members[i].subnet_id,
              InstanceID |-> members[i].instance_id,
              ID |-> members[i].id]
        ELSE [Address |-> ParseIP(dd.address),
              ProtocolPort |-> dd.protocol_port,
              Weight |-> dd.weight,
              SubnetID |-> dd.subnet_id,
              InstanceID |-> dd.instance_id,
              ID |-> dd.id]]

\* resourceLBMemberUpdate up to the pool fetch: client construction
UpdateBeginWith(cfgs) ==
    /\ Begin("update")
    /\ d.id # ""
    /\ \E cfg \in cfgs, t \in Timeouts, client \in {"ok", "client"} :
         /\ config' = cfg
         /\ timeout' = t
         /\ d' = WithConfig(d, cfg)
         /\ IF client = "client"
            THEN Return("err_client") /\ failed' = {"err_client"}
            ELSE pc' = "get" /\ result' = "none" /\ failed' = {}
    /\ called' = {}
    /\ quiet' = FALSE
    /\ UNCHANGED <<pool, ext, clock>>

UpdateBegin == UpdateBeginWith(DesiredConfigs)

UpdateOptsDefaultName(p, dd) ==
    [kind |-> "update_pool", pool |-> p.id, name |-> PoolName,
     members |-> BuildMembers(p.members, dd)]

\* opts := lbpools.UpdateOpts{Name: pool.Name, Members: members} and the
\* pool.ID the request is addressed to
UpdateOpts(p, dd) ==
    [kind |-> "update_pool", pool |-> p.id, name |-> p.name,
     members |-> BuildMembers(p.members, dd)]

\* the pool fetch of Update and the construction of the update request
UpdateGet ==
    /\ op = "update" /\ pc = "get"
    /\ called' = called \cup {"get_pool"}
    /\ \E net \in {"ok", "error"} :
         IF GetFails(d.pool_id, net)
         THEN /\ Return("err_get")
              /\ failed' = failed \cup {"err_get"}
              /\ UNCHANGED <<fetched, req>>
         ELSE /\ fetched' = pool
              /\ req' = UpdateOpts(pool, d)
              /\ pc' = "request"
              /\ UNCHANGED <<result, failed>>
    /\ UNCHANGED <<d, config, timeout, pool, op, task, attempt, polls, ext,
                   clock, ops, quiet, readMatched>>

RetryOptsRebuilt(opts, p, dd) ==
    [opts EXCEPT !.members = BuildMembers(p.members, dd)]

\* the opts value built once before lbpools.Update is what every attempt of
\* the call sends: p is the remote pool at the time of the retry
RetryOpts(opts, p, dd) == opts

\* lbpools.Update(client, pool.ID, opts, ...).Extract() under the
\* conflict-retry options
UpdateRequest ==
    /\ op = "update" /\ pc = "request"
    /\ called' = called \cup {"update_pool"}
    /\ \E resp \in {"accepted", "conflict", "error"} :
         LET out == SendRequest(RequestOpts(timeout), resp, attempt) IN
         CASE out = "accepted" ->
                /\ task' = [NoTask EXCEPT !.state = "running", !.kind = "update"]
                /\ pc' = AcceptedNext
                /\ UNCHANGED <<result, attempt, failed, req>>
           [] out = "retry" ->
                /\ attempt' = attempt + 1
                /\ req' = RetryOpts(req, pool, d)
                /\ UNCHANGED <<task, pc, result, failed>>
           [] OTHER ->
                /\ Return(out)
                /\ failed' = failed \cup {out}
                /\ UNCHANGED <<task, attempt, req>>
    /\ UNCHANGED <<d, config, timeout, pool, op, polls, ext, fetched,
                   clock, ops, quiet, readMatched>>

StampAlways(dd, err, now) == [dd EXCEPT !.last_updated = now]

\* if err != nil { return diag.FromErr(err) };
\* d.Set("last_updated", time.Now().Format(time.RFC850))
Stamp(dd, err, now) ==
    IF err # "ok" THEN dd ELSE [dd EXCEPT !.last_updated = now]

\* the extraction function of Update, the handling of what the wait
\* returns, and the last_updated stamp
UpdateExtract ==
    /\ op = "update" /\ pc = "extract"
    /\ called' = called \cup {"get_task"}
    /\ \E out \in {"ok", "err_taskget", "err_extract"} :
         LET err == WaitTaskResult(out) IN
         /\ d' = Stamp(d, err, clock + 1)
         /\ IF err # "ok"
            THEN /\ Return(err)
                 /\ failed' = failed \cup {err}
                 /\ UNCHANGED clock
            ELSE /\ clock' = clock + 1
                 /\ pc' = "read"
                 /\ UNCHANGED <<result, failed>>
    /\ UNCHANGED <<config, timeout, pool, op, req, task, attempt, polls, ext,
                   fetched, ops, quiet, readMatched>>

\* return resourceLBMemberRead(ctx, d, m)
UpdateRead ==
    /\ op = "update" /\ pc = "read"
    /\ \E net \in ReadOutcomes :
         LET r == resourceLBMemberRead(d, net) IN
         /\ d' = r.d
         /\ called' = called \cup ReadCalls(net)
         /\ failed' = failed \cup ReadFailures(r)
         /\ readMatched' = r.matched
         /\ Return(r.err)
    /\ UNCHANGED <<config, timeout, pool, op, req, task, attempt, polls, ext,
                   fetched, clock, ops, quiet>>

----------------------------------------------------------------------------
(* Delete *)

DeleteOnErrorKeepsId(dd, err) ==
    IF err = "notfound" THEN [d |-> dd, result |-> "ok"]
    ELSE [d |-> dd, result |-> err]

\* the error switch after DeleteMember: not-found clears the identity and
\* returns no error, any other error is returned
DeleteOnError(dd, err) ==
    IF err = "notfound" THEN [d |-> [dd EXCEPT !.id = ""], result |-> "ok"]
    ELSE [d |-> dd, result |-> err]

\* resourceLBMemberDelete up to the DeleteMember call: client construction
DeleteBegin ==
    /\ Begin("delete")
    /\ d.id # ""
    /\ \E t \in Timeouts, client \in {"ok", "client"} :
         /\ timeout' = t
         /\ IF client = "client"
            THEN Return("err_client") /\ failed' = {"err_client"}
            ELSE pc' = "request" /\ result' = "none" /\ failed' = {}
    /\ called' = {}
    /\ quiet' = FALSE
    /\ UNCHANGED <<d, config, pool, ext, clock>>

\* the answers the remote can give to a remove-member request
DeleteAnswers ==
    IF d.pool_id = pool.id /\ d.id \in Ids(pool.members)
    THEN {"accepted", "conflict", "error"}
    ELSE {"notfound", "conflict", "error"}

\* lbpools.DeleteMember(client, pid, mid, ...).Extract() under the
\* conflict-retry options, and the error switch
DeleteRequest ==
    /\ op = "delete" /\ pc = "request"
    /\ called' = called \cup {"delete_member"}
    /\ \E resp \in DeleteAnswers :
         LET out == SendRequest(RequestOpts(timeout), resp, attempt) IN
         CASE out = "accepted" ->
                /\ req' = [kind |-> "delete_member", pool |-> d.pool_id,
                           member |-> d.id]
                /\ task' = [NoTask EXCEPT !.state = "running", !.kind = "delete",
                                          !.member = d.id]
                /\ pc' = AcceptedNext
                /\ UNCHANGED <<d, result, attempt, failed>>
           [] out = "retry" ->
                /\ attempt' = attempt + 1
                /\ UNCHANGED <<d, req, task, pc, result, failed>>
           [] OTHER ->
                /\ d' = DeleteOnError(d, out).d
                /\ Return(DeleteOnError(d, out).result)
                /\ failed' = failed \cup {out}
                /\ UNCHANGED <<req, task, attempt>>
    /\ UNCHANGED <<config, timeout, pool, op, polls, ext, fetched, clock, ops,
                   quiet, readMatched>>

\* the extraction function of Delete: re-fetch the pool and look for the
\* member's identity
DeleteVerify(pid, mid, net) ==
    IF GetFails(pid, net) THEN "err_get"
    ELSE IF mid \in Ids(pool.members) THEN "err_still_exists"
    ELSE "ok"

DeleteAfterWaitAlways(dd, err) == [dd EXCEPT !.id = ""]

\* if err != nil { return diag.FromErr(err) }; d.SetId("")
DeleteAfterWait(dd, err) ==
    IF err # "ok" THEN dd ELSE [dd EXCEPT !.id = ""]

\* the extraction function of Delete, invoked by the poller, and the
\* handling of what the wait returns
DeleteExtract ==
    /\ op = "delete" /\ pc = "extract"
    /\ called' = called \cup {"get_pool"}
    /\ \E net \in {"ok", "error"} :
         LET err == WaitTaskResult(DeleteVerify(req.pool, req.member, net)) IN
         /\ d' = DeleteAfterWait(d, err)
         /\ IF err # "ok"
            THEN Return(err) /\ failed' = failed \cup {err}
            ELSE Return("ok") /\ UNCHANGED failed
    /\ UNCHANGED <<config, timeout, pool, op, req, task, attempt, polls, ext,
                   fetched, clock, ops, quiet, readMatched>>

----------------------------------------------------------------------------
(* Import *)

\* composite identifiers, each a string cut into its delimiters and the
\* pieces between them
Delimiter == "/"
ImportIds ==
    { <<"42", "/", "5", "/", "m-100", "/", "p-7">>,
      <<"7", "/", "5", "/", "m-2", "/", "p-9">>,
      <<"42", "/", "5", "/", "m-100">>,
      <<"42", "/", "5", "/", "m-100", "/", "p-7", "/", "x">>,
      <<"dev", "/", "5", "/", "m-2", "/", "p-7">> }

\* strings.Split on the delimiter
RECURSIVE Split(_)
Split(s) ==
    IF s = <<>> THEN <<"">>
    ELSE IF Head(s) = Delimiter THEN <<"">> \o Split(Tail(s))
    ELSE <<Head(s)>> \o Tail(Split(Tail(s)))

\* strconv.Atoi on the numeric pieces used here; -1 stands for its error
Atoi(t) ==
    CASE t = "42" -> 42
      [] t = "5" -> 5
      [] t = "7" -> 7
      [] OTHER -> -1

\* ImportStringParserExtended: four tokens, project and region numeric,
\* then the member identity, then the pool identity
ImportStringParserExtended(s) ==
    LET t == Split(s) IN
    IF Len(t) # 4 \/ Atoi(t[1]) < 0 \/ Atoi(t[2]) < 0
    THEN [err |-> "err_parse", projectID |-> 0, regionID |-> 0,
          memberID |-> "", lbPoolID |-> ""]
    ELSE [err |-> "ok", projectID |-> Atoi(t[1]), regionID |-> Atoi(t[2]),
          memberID |-> t[3], lbPoolID |-> t[4]]

ImportStateSwapped(dd, p) ==
    IF p.err # "ok" THEN dd
    ELSE [dd EXCEPT !.project_id = p.projectID, !.region_id = p.regionID,
                    !.pool_id = p.memberID, !.id = p.lbPoolID]

\* the body of Importer.StateContext after the parse
ImportState(dd, p) ==
    IF p.err # "ok" THEN dd
    ELSE [dd EXCEPT !.project_id = p.projectID, !.region_id = p.regionID,
                    !.pool_id = p.lbPoolID, !.id = p.memberID]

\* Importer.StateContext on a resource that is not yet tracked; req keeps
\* the composite identifier it was handed, d.Id() at entry
Import ==
    /\ d.id = ""
    /\ \E s \in ImportIds :
         LET p == ImportStringParserExtended(s) IN
         /\ BeginWith("import", [kind |-> "import", id |-> s])
         /\ d' = ImportState(d, p)
         /\ Return(p.err)
    /\ called' = {}
    /\ failed' = {}
    /\ quiet' = FALSE
    /\ UNCHANGED <<config, timeout, pool, ext, clock>>

----------------------------------------------------------------------------

Init ==
    /\ d \in {EmptyData, TrackedA}
    /\ config = IF d = EmptyData THEN NoConfig ELSE ConfigA
    /\ timeout = 1
    /\ pool \in {[id |-> PoolID, name |-> InitialName(ms), members |-> ms] : ms \in InitialPools}
    /\ op = "none"
    /\ pc = "idle"
    /\ result = "none"
    /\ req = NoReq
    /\ task = NoTask
    /\ attempt = 0
    /\ polls = 0
    /\ called = {}
    /\ failed = {}
    /\ ext = 0
    /\ fetched = NoPool
    /\ clock = 0
    /\ ops = 0
    /\ quiet = FALSE
    /\ readMatched = FALSE

Next ==
    \/ Read
    \/ CreateBegin \/ CreateRequest \/ CreateExtract \/ CreateRead
    \/ UpdateBegin \/ UpdateGet \/ UpdateRequest \/ UpdateExtract \/ UpdateRead
    \/ DeleteBegin \/ DeleteRequest \/ DeleteExtract
    \/ Import
    \/ WaitPoll
    \/ TaskFinish \/ TaskFail \/ RemoteSettle
    \/ ExternalAdd \/ ExternalRemove

Spec == Init /\ [][Next]_vars

----------------------------------------------------------------------------
(* Properties *)

Fields == {"address", "protocol_port", "weight", "subnet_id", "instance_id"}

MemberWithId(members, id) ==
    CHOOSE m \in {members[i] : i \in 1..Len(members)} : m.id = id

\* C1: the member collection Update submits has the length and order of the
\* fetched member list; entries of other identities carry that member's
\* remote address, port, weight, subnet, instance and identity, and the
\* entry of the resource's identity carries the desired configuration with
\* the existing identity.
C1_UpdateCollection ==
    (op = "update" /\ "update_pool" \in called /\ d.id \in Ids(fetched.members)) =>
        /\ Len(req.members) = Len(fetched.members)
        /\ \A i \in 1..Len(fetched.members) :
             LET e == req.members[i]
                 m == fetched.members[i] IN
             /\ e.ID = m.id
             /\ m.id # d.id =>
                  /\ e.Address = m.address
                  /\ e.ProtocolPort = m.protocol_port
                  /\ e.Weight = m.weight
                  /\ e.SubnetID = m.subnet_id
                  /\ e.InstanceID = m.instance_id
             /\ m.id = d.id =>
                  /\ e.Address = ParseIP(config.address)
                  /\ e.ProtocolPort = config.protocol_port
                  /\ e.Weight = config.weight
                  /\ e.SubnetID = config.subnet_id
                  /\ e.InstanceID = config.instance_id

C1_Witness ==
    /\ op = "update" /\ "update_pool" \in called
    /\ Len(fetched.members) >= 2
    /\ d.id \in Ids(fetched.members)
    /\ \E i \in 1..Len(fetched.members) :
         fetched.members[i].id = d.id /\ fetched.members[i].weight # config.weight

\* C2: when the remote answers Delete's remove-member request with
\* not-found, Delete returns no error, the identity is cleared and no task
\* is polled.
C2_DeleteNotFound ==
    (op = "delete" /\ pc = "done" /\ "notfound" \in failed) =>
        /\ result = "ok"
        /\ d.id = ""
        /\ "get_task" \notin called
        /\ task.state = "none"

C2_Witness == op = "delete" /\ pc = "done" /\ "notfound" \in failed

\* C3: a Delete whose verification finds the member still listed does not
\* fail on that finding: it ends in success or in a timeout error, never in
\* the still-exists error.
C3_DeleteVerifyRetries ==
    (op = "delete" /\ pc = "done" /\ "get_pool" \in called) =>
        result \in {"ok", "err_timeout", "err_get"}

\* C4: a Create that fails at client construction, the request, the task
\* wait or the extraction returns an error with the identity still empty;
\* the identity is set only after the task finished and is the identity
\* extracted from it.
C4_CreateIdentity ==
    op = "create" =>
        /\ (pc = "done" /\ failed \cap {"err_client", "err_request", "err_conflict",
                                        "err_task", "err_timeout", "err_taskget",
                                        "err_extract"} # {}) =>
              (result # "ok" /\ d.id = "")
        /\ (pc = "done" /\ result # "ok") => d.id = ""
        /\ d.id # "" =>
              /\ task.state = "finished"
              /\ d.id = task.member
              /\ pc \in {"read", "done"}

C4_Witness ==
    /\ op = "create" /\ pc = "done" /\ result = "err_extract"
    /\ task.state = "finished" /\ task.member \in Ids(pool.members)
    /\ d.id = ""

\* C5: an Update whose fetched pool has no member of the resource's
\* identity returns an error and does not issue the pool-update request.
C5_UpdateMissingTarget ==
    (op = "update" /\ fetched # NoPool /\ d.id \notin Ids(fetched.members)) =>
        /\ "update_pool" \notin called
        /\ pc = "done" => result # "ok"

\* C6: an operation in which a remote call failed (the delete not-found
\* answer aside) returns an error.
C6_FailurePropagates ==
    (pc = "done" /\ failed \ {"notfound"} # {}) => result # "ok"

\* C7: with no out-of-band mutation, after a successful Create and a Read
\* that found the member, the five configurable fields equal the submitted
\* desired configuration.
C7_CreateReadRoundTrip ==
    (quiet /\ op \in {"create", "read"} /\ pc = "done" /\ d.id # "" /\ readMatched) =>
        \A f \in Fields : d[f] = config[f]

IsReadStep == Read \/ CreateRead \/ UpdateRead

\* C8: a Read overwrites address, port, weight, subnet, instance and
\* operating status with the remote values of the member whose identity
\* equals the resource's; when the fetch fails or no member matches, none of
\* them changes; the identity is kept in every case.
C8_ReadByIdentity ==
    [][IsReadStep =>
        /\ d'.id = d.id
        /\ IF failed' = {} /\ d.id \in Ids(pool.members)
           THEN LET pm == MemberWithId(pool.members, d.id) IN
                /\ d'.address = IPString(pm.address)
                /\ d'.protocol_port = pm.protocol_port
                /\ d'.weight = pm.weight
                /\ d'.subnet_id = pm.subnet_id
                /\ d'.instance_id = pm.instance_id
                /\ d'.operating_status = pm.operating_status
           ELSE \A f \in Fields \cup {"operating_status"} : d'[f] = d[f]]_vars

C8_Witness ==
    /\ op = "read" /\ pc = "done" /\ result = "ok"
    /\ d.id \in Ids(pool.members)
    /\ d.weight = MemberWithId(pool.members, d.id).weight
    /\ d.weight # config.weight

Mutating == {"create", "update", "delete"}

\* C9: conflict answers below the attempt count derived from the timeout
\* are absorbed: the request goes on to the task wait, no conflict error is
\* returned and the operation reports success when nothing else fails; a
\* conflict error is returned exactly when the conflicts use up the derived
\* attempt count.
C9_ConflictRetry ==
    op \in Mutating =>
        /\ attempt < GetConflictRetryConfig(timeout).Amount
        /\ (pc = "done" /\ result = "err_conflict") =>
              attempt + 1 = GetConflictRetryConfig(timeout).Amount
        /\ task.state # "none" => "err_conflict" \notin failed
        /\ (pc = "done" /\ failed = {}) => result = "ok"

C9_Witness ==
    /\ op \in Mutating /\ pc = "done" /\ result = "ok"
    /\ attempt >= 1 /\ "get_task" \in called

IsImportStep == op' = "import" /\ ops' = ops + 1

\* C10: Import of four delimiter-separated tokens sets project, region,
\* member identity and pool from the first, second, third and fourth token;
\* a parse error returns the error and leaves the resource untouched; no
\* remote call is made and no other field is set.
C10_Import ==
    [][IsImportStep =>
        LET t == Split(req'.id) IN
        /\ called' = {}
        /\ pool' = pool
        /\ IF result' = "ok"
           THEN /\ Len(t) = 4
                /\ d'.project_id = Atoi(t[1])
                /\ d'.region_id = Atoi(t[2])
                /\ d'.id = t[3]
                /\ d'.pool_id = t[4]
                /\ \A f \in Fields \cup {"operating_status", "last_updated"} :
                     d'[f] = d[f]
           ELSE result' = "err_parse" /\ d' = d
        /\ Len(t) = 4 /\ Atoi(t[1]) >= 0 /\ Atoi(t[2]) >= 0 => result' = "ok"]_vars

C10_Witness ==
    /\ op = "import" /\ pc = "done" /\ result = "ok"
    /\ req.id = <<"42", "/", "5", "/", "m-100", "/", "p-7">>
    /\ d.project_id = 42 /\ d.region_id = 5
    /\ d.id = "m-100" /\ d.pool_id = "p-7"

----------------------------------------------------------------------------
(* Weight validation *)

minWeight == 0
maxWeight == 256
WeightMargin == 2

\* the weights handed to the validation: the valid range and a margin on
\* both sides of it
WeightInputs == (minWeight - WeightMargin)..(maxWeight + WeightMargin)

weightValidateExclusive(v) ==
    IF v > minWeight /\ v < maxWeight THEN "ok" ELSE "err_validation"

\* ValidateDiagFunc of the weight attribute
weightValidate(v) ==
    IF v >= minWeight /\ v <= maxWeight THEN "ok" ELSE "err_validation"

\* the host framework validates the configured weight of a plan
Validate ==
    /\ pc = "idle" /\ op = "none"
    /\ op' = "validate"
    /\ result' = weightValidate(config.weight)
    /\ UNCHANGED <<d, config, timeout, pool, pc, req, task, attempt, polls,
                   called, failed, ext, fetched, clock, ops, quiet, readMatched>>

\* the host framework invokes Create or Update only for a configuration
\* that passed validation
ValidatedCreate == op = "validate" /\ result = "ok" /\ CreateBeginWith({config})
ValidatedUpdate == op = "validate" /\ result = "ok" /\ UpdateBeginWith({config})

InitValidate ==
    /\ d \in {EmptyData, TrackedA}
    /\ config \in {[ConfigA EXCEPT !.weight = w] : w \in WeightInputs}
    /\ timeout = 1
    /\ pool \in {[id |-> PoolID, name |-> InitialName(ms), members |-> ms] : ms \in InitialPools}
    /\ op = "none"
    /\ pc = "idle"
    /\ result = "none"
    /\ req = NoReq
    /\ task = NoTask
    /\ attempt = 0
    /\ polls = 0
    /\ called = {}
    /\ failed = {}
    /\ ext = 0
    /\ fetched = NoPool
    /\ clock = 0
    /\ ops = 0
    /\ quiet = FALSE
    /\ readMatched = FALSE

NextValidate ==
    \/ Validate
    \/ ValidatedCreate \/ CreateRequest \/ CreateExtract \/ CreateRead
    \/ ValidatedUpdate \/ UpdateGet \/ UpdateRequest \/ UpdateExtract \/ UpdateRead
    \/ WaitPoll
    \/ TaskFinish \/ TaskFail

SpecValidate == InitValidate /\ [][NextValidate]_vars

\* C11: weight validation accepts w exactly when 0 <= w <= 256; -1 and 257
\* are rejected; a rejected weight reaches no lifecycle operation and no
\* remote call.
C11_WeightRange ==
    /\ op # "none" =>
         (result # "err_validation" <=> (config.weight >= 0 /\ config.weight <= 256))
    /\ (op = "validate" /\ config.weight \in {-1, 257}) => result = "err_validation"
    /\ (config.weight < 0 \/ config.weight > 256) =>
         (called = {} /\ op \in {"none", "validate"} /\ pc = "idle")

C11_Witness ==
    /\ op = "validate" /\ config.weight = 257
    /\ result = "err_validation" /\ called = {}

\* the lifecycle operations under the scheduling of the code: one blocking
\* flow that keeps polling and runs the extraction function it was handed
SpecFair ==
    /\ Init /\ [][Next]_vars
    /\ WF_vars(WaitPoll)
    /\ WF_vars(CreateExtract) /\ WF_vars(UpdateExtract) /\ WF_vars(DeleteExtract)

WaitEnds == pc = "wait" /\ pc' # "wait"
ExtractEnds == pc = "extract" /\ pc' # "extract"

\* C12 as stated: a task wait ends in terminal success (extraction invoked),
\* terminal task failure or timeout, and in nothing else.
C12_ThreeOutcomes ==
    [][WaitEnds =>
        \/ pc' = "extract" /\ task.state = "finished"
        \/ pc' = "done" /\ result' = "err_task" /\ task.state = "error"
        \/ pc' = "done" /\ result' = "err_timeout" /\ task.state = "running"]_vars

\* C12 as amended: a task wait ends in terminal success, after which the
\* extraction function is invoked and its result or error returned, in
\* terminal task failure, in timeout, or in a transport error of the status
\* fetch; the last three return an error without invoking the extraction
\* function; extraction never runs before terminal success; every wait
\* eventually returns.
C12_WaitOutcomes ==
    /\ [][WaitEnds =>
            \/ pc' = "extract" /\ task.state = "finished"
            \/ pc' = "done" /\ result' = "err_task" /\ task.state = "error"
            \/ pc' = "done" /\ result' = "err_timeout" /\ task.state = "running"
                 /\ polls + 1 >= timeout
            \/ pc' = "done" /\ result' = "err_taskget"]_vars
    /\ [][ExtractEnds =>
            \/ pc' = "done" /\ result' \in {"ok", "err_taskget", "err_extract",
                                           "err_get", "err_still_exists"}
            \/ pc' = "read" /\ op \in {"create", "update"}]_vars
    /\ [](pc = "extract" => task.state = "finished")
    /\ [][pc' = "extract" => pc \in {"wait", "extract"}]_vars
    /\ (pc = "wait" ~> pc \notin {"wait", "extract"})

C12_Witness ==
    /\ op \in Mutating /\ pc = "done" /\ result = "err_timeout"
    /\ task.state = "running" /\ polls + 1 = timeout /\ polls >= 1

UpdateErrors == {"err_client", "err_get", "err_request", "err_conflict",
                 "err_task", "err_timeout", "err_taskget", "err_extract"}

\* C13: Update fetches the pool, submits the pool-update request, waits for
\* the task, stamps last_updated and then Reads, in that order; a failure of
\* the fetch, the request or the wait returns the error with last_updated
\* unchanged and no final Read; last_updated changes only when the wait
\* succeeded.
C13_UpdateOrder ==
    /\ [](op = "update" =>
            /\ "update_pool" \in called => (fetched # NoPool /\ "get_pool" \in called)
            /\ task.state # "none" => "update_pool" \in called
            /\ "get_task" \in called => task.state # "none"
            /\ pc = "read" => (task.state = "finished" /\ d.last_updated = clock)
            /\ (pc = "done" /\ failed \cap UpdateErrors # {}) =>
                 (result \in UpdateErrors /\ failed \subseteq UpdateErrors))
    /\ [][(op = "update" /\ op' = "update" /\ ops' = ops) =>
            /\ d'.last_updated # d.last_updated =>
                 (pc = "extract" /\ pc' = "read" /\ task.state = "finished"
                    /\ failed' = {} /\ d'.last_updated = clock')
            /\ (pc' = "read" /\ pc # "read") =>
                 (pc = "extract" /\ d'.last_updated # d.last_updated)
            /\ (pc \notin {"read", "done"} /\ pc' = "done") =>
                 (result' # "ok" /\ d'.last_updated = d.last_updated
                    /\ d' = d /\ failed' \cap {"read_err_client", "read_err_get"} = {})
            /\ (pc = "read" /\ pc' # pc) => pc' = "done"]_vars

C13_Witness ==
    /\ op = "update" /\ pc = "done" /\ result = "err_extract"
    /\ task.state = "finished" /\ d.last_updated = 0 /\ clock = 0

\* C14: Delete clears the identity only when the remove-member request was
\* answered not-found or when the task wait with its absence verification
\* returned without error; in every other outcome Delete returns an error
\* and the identity is unchanged.
C14_DeleteClearsIdentity ==
    /\ [](op = "delete" =>
            /\ d.id = "" <=> (pc = "done" /\ result = "ok")
            /\ (pc = "done" /\ result = "ok") =>
                 \/ "notfound" \in failed /\ task.state = "none"
                 \/ failed = {} /\ task.state = "finished"
                      /\ "get_pool" \in called
            /\ (pc = "done" /\ failed \ {"notfound"} # {}) => result # "ok")
    /\ [][(op = "delete" /\ op' = "delete" /\ ops' = ops) =>
            /\ d'.id \in {d.id, ""}
            /\ d'.id # d.id =>
                 \/ pc = "request" /\ "notfound" \in failed'
                 \/ pc = "extract" /\ req.member \notin Ids(pool.members)
                      /\ failed' = {}]_vars

C14_Witness ==
    /\ op = "delete" /\ pc = "done" /\ result = "err_get"
    /\ task.state = "finished" /\ d.id = req.member
    /\ d.id \notin Ids(pool.members)

MutatingCalls == {"create_member", "update_pool", "delete_member"}

\* the mutating request that belongs to an operation
OwnCall(o) ==
    CASE o = "create" -> {"create_member"}
      [] o = "update" -> {"update_pool"}
      [] o = "delete" -> {"delete_member"}
      [] OTHER -> {}

\* C15: no operation compensates: one invocation submits at most one kind
\* of mutating request, the one of its operation, and after any error of the
\* invocation no further mutating request is sent; a failure after the member
\* was created remotely triggers no delete.
C15_NoCompensation ==
    /\ [](called \cap MutatingCalls \subseteq OwnCall(op))
    /\ [](op = "create" => "delete_member" \notin called)
    /\ []((failed \ {"notfound"}) # {} => pc = "done")
    /\ [][(failed \ {"notfound"}) # {} /\ ops' = ops /\ op' = op =>
            called' \cap MutatingCalls \subseteq called \cap MutatingCalls]_vars

C15_Witness ==
    /\ op = "create" /\ pc = "done" /\ "read_err_get" \in failed
    /\ task.state = "finished" /\ task.member \in Ids(pool.members)
    /\ called \cap MutatingCalls = {"create_member"}

\* C16: the pool-update request of Update carries the pool name and the pool
\* id the pool fetch at the start of Update returned, and Update changes
\* neither the local identity nor the local pool reference.
C16_UpdateKeepsPool ==
    /\ []((op = "update" /\ "update_pool" \in called) =>
            /\ fetched # NoPool
            /\ req.kind = "update_pool"
            /\ req.name = fetched.name
            /\ req.pool = fetched.id)
    /\ []((op = "update" /\ task.state = "finished" /\ ext = 0) =>
            pool.name = fetched.name /\ pool.id = fetched.id)
    /\ [][op' = "update" /\ op = "update" /\ ops' = ops =>
            d'.id = d.id /\ d'.pool_id = d.pool_id]_vars
    /\ [][op' = "update" /\ op # "update" =>
            d'.id = d.id /\ d'.pool_id = d.pool_id]_vars

C16_Witness ==
    /\ op = "update" /\ pc = "done" /\ result = "ok"
    /\ req.kind = "update_pool" /\ req.name = "pool-b" /\ pool.name = "pool-b"
    /\ d.id = "m-100" /\ d.pool_id = PoolID

\* the identities of a member collection, in order
IdSeq(members) == [i \in 1..Len(members) |-> members[i].id]
OptIdSeq(members) == [i \in 1..Len(members) |-> members[i].ID]

\* C17: Update computes the member collection once, from one snapshot of the
\* pool: it holds exactly the identities of the snapshot, every conflict
\* retry of the request submits the same collection, and members another
\* actor adds or removes after the snapshot are not reflected in it.
C17_SnapshotCollection ==
    /\ []((op = "update" /\ req.kind = "update_pool") =>
            /\ OptIdSeq(req.members) = IdSeq(fetched.members)
            /\ pc \in {"request", "wait", "extract"} =>
                 req.members = BuildMembers(fetched.members, d))
    /\ [][(op = "update" /\ op' = "update" /\ ops' = ops
             /\ req.kind = "update_pool") =>
            (req' = req /\ fetched' = fetched)]_vars
    /\ [][(op = "update" /\ op' = "update" /\ ops' = ops
             /\ pc \notin {"get", "read"}) =>
            "get_pool" \notin (called' \ called)]_vars

C17_Witness ==
    /\ op = "update" /\ pc = "request" /\ attempt >= 1
    /\ "update_pool" \in called /\ ext >= 1
    /\ Ids(pool.members) # Ids(fetched.members)
    /\ OptIdSeq(req.members) = IdSeq(fetched.members)

\* C18: Read sends no mutating request and changes neither the identity,
\* the pool reference nor last_updated: each is after a Read what it was
\* before it.
C18_ReadLeaves ==
    /\ [][IsReadStep =>
            /\ d'.id = d.id
            /\ d'.pool_id = d.pool_id
            /\ d'.last_updated = d.last_updated
            /\ called' \cap MutatingCalls \subseteq called \cap MutatingCalls
            /\ called' \ called \subseteq {"get_pool"}
            /\ pool' = pool /\ task' = task /\ req' = req]_vars
    /\ [](op = "read" => called \subseteq {"get_pool"})

C18_Witness ==
    /\ op = "read" /\ pc = "done" /\ result = "ok" /\ readMatched
    /\ called = {"get_pool"} /\ d.id = "m-100" /\ d.pool_id = PoolID
    /\ d.last_updated = 0 /\ d.weight # TrackedA.weight

====
